---- MODULE Spec2Model ----
(***************************************************************************)
(* Model of wandb/sdk/launch/docker.py: the repo2docker image path         *)
(* (generate_docker_image), the image tag derivation                       *)
(* (_get_docker_image_uri), the build-context packager                     *)
(* (_create_docker_build_ctx) and the image builder (build_docker_image).  *)
(*                                                                         *)
(* Python strings are sequences of one-character strings where the code    *)
(* looks inside them (replace, slicing, split) and sequences of opaque     *)
(* tokens elsewhere.  An optional value (None or a string) is a record     *)
(* [some, v]; Python truthiness of it is Truthy.                           *)
(***************************************************************************)
EXTENDS Integers, Sequences, FiniteSets, TLC

VARIABLES
    pc,                     \* position of the call being modelled
    project,                \* _project_spec.Project: dir, name, docker_env
    docker_repository_uri,  \* argument of build_docker_image
    git_commit,             \* GitRepo(work_dir).last_commit
    settings_base_url,      \* api.settings("base_url")
    image_uri,              \* local of build_docker_image
    base_url,               \* local of build_docker_image
    wandb_project,          \* local of build_docker_image
    wandb_entity,           \* local of build_docker_image
    dockerfile,             \* rendered recipe, a sequence of lines
    directory,              \* the mkdtemp() scratch directory on disk
    dst_path,               \* files under <directory>/wandb-project-contents
    result_path,            \* the mkstemp() archive file on disk
    tarball,                \* content of the archive file
    docker_build_ctx,       \* the stream opened on the archive
    engineCalls,            \* number of client.images.build calls made
    image,                  \* value returned to the caller
    pending,                \* exception travelling through finally / with
    raised,                 \* exception observed by the caller
    failed,                 \* operations the environment made fail
    log,                    \* _logger.info messages about cleanup
    trace,                  \* positions executed so far, in order
    returncode,             \* exit status of jupyter-repo2docker
    stderr,                 \* its decoded stderr, a sequence of lines
    image_id                \* value returned by generate_docker_image

inputs == <<project, docker_repository_uri, git_commit, settings_base_url>>
locals == <<image_uri, base_url, wandb_project, wandb_entity, dockerfile>>
disk == <<directory, dst_path, result_path, tarball>>
engine == <<docker_build_ctx, engineCalls, image>>
exc == <<pending, raised, failed, log>>
r2d == <<returncode, stderr, image_id>>

vars == <<pc, trace, inputs, locals, disk, engine, exc, r2d>>

----------------------------------------------------------------------------
(* Bounds of the explored inputs *)

MaxUriLen == 3
MaxCommitLen == 8
MaxStderrLines == 3

----------------------------------------------------------------------------
(* Helpers for Python values *)

None == [some |-> FALSE, v |-> <<>>]
Some(s) == [some |-> TRUE, v |-> s]
Truthy(o) == o.some /\ o.v # <<>>

SeqsUpTo(S, n) == UNION {[1..k -> S] : k \in 0..n}

Min(a, b) == IF a < b THEN a ELSE b

\* s[:n]
Take(s, n) == SubSeq(s, 1, Min(n, Len(s)))

\* str.replace(old, new) for one-character old and new
RECURSIVE Replace(_, _, _)
Replace(s, old, new) ==
    IF s = <<>> THEN <<>>
    ELSE <<(IF Head(s) = old THEN new ELSE Head(s))>> \o Replace(Tail(s), old, new)

\* str.split(sep) for a one-token separator: always at least one component
RECURSIVE SplitAcc(_, _, _)
SplitAcc(s, sep, cur) ==
    IF s = <<>> THEN <<cur>>
    ELSE IF Head(s) = sep THEN <<cur>> \o SplitAcc(Tail(s), sep, <<>>)
    ELSE SplitAcc(Tail(s), sep, Append(cur, Head(s)))

Split(s, sep) == SplitAcc(s, sep, <<>>)

----------------------------------------------------------------------------
(* Module constants of docker.py *)

GENERATED_DOCKERFILE_NAME == "Dockerfile.wandb-autogenerated"
PROJECT_TAR_ARCHIVE_NAME == "wandb-project-docker-build-context"
WANDB_DOCKER_WORKDIR_PATH == "<WANDB_DOCKER_WORKDIR_PATH>"

----------------------------------------------------------------------------
(* _get_docker_image_uri *)

DefaultRepository == <<"d", "o", "c", "k", "e", "r", "-", "p", "r", "o", "j", "e", "c", "t">>

\* Variant: the commit is appended whole, not git_commit[:7]
GetDockerImageUriWholeCommit(repository_uri, commit) ==
    LET repo == IF Truthy(repository_uri)
                THEN Replace(repository_uri.v, " ", "-")
                ELSE DefaultRepository
        version_string == IF Truthy(commit) THEN <<":">> \o commit.v ELSE <<>>
    IN repo \o version_string

GetDockerImageUri(repository_uri, commit) ==
    LET repo == IF Truthy(repository_uri)
                THEN Replace(repository_uri.v, " ", "-")
                ELSE DefaultRepository
        version_string == IF Truthy(commit) THEN <<":">> \o Take(commit.v, 7) ELSE <<>>
    IN repo \o version_string

----------------------------------------------------------------------------
(* generate_docker_image: the jupyter-repo2docker path *)

\* A stderr line is [kind, id]: kind "tagged" is "Successfully tagged <id>:latest",
\* kind "reusing" is "Reusing existing image (<id>)", kind "other" is anything else.
RECURSIVE Ids(_)
Ids(lines) == IF lines = <<>> THEN <<>> ELSE <<Head(lines).id>> \o Ids(Tail(lines))

\* re.findall(pattern, stderr) with one group: the captured ids, in order
FindAll(kind, text) == Ids(SelectSeq(text, LAMBDA line : line.kind = kind))

\* The result of generate_docker_image: the exit status is never inspected.
GenerateDockerImage(status, text) ==
    LET tagged == FindAll("tagged", text)
        found == IF tagged = <<>> THEN FindAll("reusing", text) ELSE tagged
    IN IF found = <<>>
       THEN [raised |-> "Exception: error running repo2docker", image_id |-> "none"]
       ELSE [raised |-> "none", image_id |-> found[1]]

----------------------------------------------------------------------------
(* build_docker_image: resolving the tracking base URL *)

\* A URL is a sequence of tokens in which ":" is a token of its own.
IsWandbLocalUri(url) ==
    /\ Len(url) >= 3
    /\ url[1] \in {"http", "https"}
    /\ url[2] = ":"
    /\ url[3] = "//localhost"

IsWandbDevUri(url) ==
    /\ Len(url) >= 3
    /\ url[1] \in {"http", "https"}
    /\ url[2] = ":"
    /\ url[3] = "//api.wandb.test"

HostDockerInternal == <<"http", ":", "//host.docker.internal", ":">>

\* Lines 76-82.  The unpacking "_, _, port = url.split(':')" raises ValueError
\* unless the split gives exactly three components.
ResolveBaseUrl(url) ==
    IF IsWandbLocalUri(url)
    THEN LET parts == Split(url, ":")
         IN IF Len(parts) = 3
            THEN [raised |-> "none", base_url |-> HostDockerInternal \o parts[3]]
            ELSE [raised |-> "ValueError", base_url |-> <<>>]
    ELSE IF IsWandbDevUri(url)
    THEN [raised |-> "none", base_url |-> HostDockerInternal \o <<"9002">>]
    ELSE [raised |-> "none", base_url |-> url]

----------------------------------------------------------------------------
(* build_docker_image: the environment lookups and the recipe *)

\* Variant: project.docker_env.get(key, ""), which never raises
EnvGet(env, key) ==
    IF key \in DOMAIN env
    THEN [raised |-> "none", v |-> env[key]]
    ELSE [raised |-> "none", v |-> <<>>]

\* project.docker_env[key]: KeyError when the key is absent
EnvLookup(env, key) ==
    IF key \in DOMAIN env
    THEN [raised |-> "none", v |-> env[key]]
    ELSE [raised |-> "KeyError", v |-> <<>>]

Line(kw, key, val) == [kw |-> kw, key |-> key, val |-> val]

\* Variant: "if project.name is not None"
NameEnvUnlessNone(name) ==
    IF name.some THEN <<Line("ENV", "WANDB_NAME", name.v)>> ELSE <<>>

\* Lines 89-92: zero or one line
NameEnv(name) ==
    IF Truthy(name) THEN <<Line("ENV", "WANDB_NAME", name.v)>> ELSE <<>>

\* Lines 93-113
RenderDockerfile(imagename, url, api_key, project_value, entity_value, name) ==
    <<Line("FROM", "", imagename),
      Line("COPY", PROJECT_TAR_ARCHIVE_NAME, <<WANDB_DOCKER_WORKDIR_PATH>>),
      Line("WORKDIR", "", <<WANDB_DOCKER_WORKDIR_PATH>>),
      Line("ENV", "WANDB_BASE_URL", url),
      Line("ENV", "WANDB_API_KEY", api_key),
      Line("ENV", "WANDB_PROJECT", project_value),
      Line("ENV", "WANDB_ENTITY", entity_value)>>
    \o NameEnv(name)
    \o <<Line("ENV", "WANDB_LAUNCH", <<"True">>),
         Line("USER", "", <<"root">>)>>

----------------------------------------------------------------------------
(* _create_docker_build_ctx: the file operations *)

NoFiles == [f \in {} |-> <<>>]

\* open(os.path.join(dst_path, name), "w") followed by write: the file is
\* created, or truncated and rewritten when the copy already has one.
WriteFile(files, name, contents) ==
    [f \in DOMAIN files \cup {name} |-> IF f = name THEN contents ELSE files[f]]

\* wandb.util.make_tarfile(output_filename, source_dir, archive_name):
\* every file of source_dir under the single root archive_name
MakeTarfile(files, archive_name) == [root |-> archive_name, files |-> files]

NoTarball == [root |-> "", files |-> NoFiles]

----------------------------------------------------------------------------
(* Inputs of build_docker_image *)

UserCode == <<Line("print", "", <<"hello">>)>>
UserDockerfile == <<Line("FROM", "", <<"scratch">>)>>

Dirs ==
    { [exists |-> FALSE, files |-> NoFiles],
      [exists |-> TRUE, files |-> NoFiles],
      [exists |-> TRUE, files |-> [f \in {"main.py"} |-> UserCode]],
      [exists |-> TRUE,
       files |-> [f \in {"main.py", GENERATED_DOCKERFILE_NAME} |->
                    IF f = "main.py" THEN UserCode ELSE UserDockerfile]] }

Names == {None, Some(<<>>), Some(<<"run-1">>)}

EnvValues == [k \in {"WANDB_PROJECT", "WANDB_ENTITY"} |-> <<k, "-value">>]

Envs == {[k \in K |-> EnvValues[k]] : K \in SUBSET {"WANDB_PROJECT", "WANDB_ENTITY"}}

Projects == [dir : Dirs, name : Names, docker_env : Envs]

RepositoryUris == {None, Some(<<"m", "y", " ", "r", " ", "p">>)}

Commits == {None, Some(<<"a", "b", "c", "1", "2", "3", "4", "5", "6", "7">>)}

BaseUrls ==
    { <<"http", ":", "//localhost", ":", "8080">>,
      <<"http", ":", "//localhost">>,
      <<"http", ":", "//localhost", ":", "8080", "/a", ":", "b">>,
      <<"https", ":", "//api.wandb.test">>,
      <<"https", ":", "//api.example.com">> }

BaseImage == <<"python:3.8">>
ApiKey == <<"api-key">>

NoImage == [built |-> FALSE, tag |-> <<>>]

----------------------------------------------------------------------------
(* Initial values *)

BuildIdle ==
    /\ trace = <<>>
    /\ image_uri = <<>>
    /\ base_url = <<>>
    /\ wandb_project = <<>>
    /\ wandb_entity = <<>>
    /\ dockerfile = <<>>
    /\ directory = "unallocated"
    /\ dst_path = NoFiles
    /\ result_path = "unallocated"
    /\ tarball = NoTarball
    /\ docker_build_ctx = "unopened"
    /\ engineCalls = 0
    /\ image = NoImage
    /\ pending = "none"
    /\ raised = "none"
    /\ failed = {}
    /\ log = <<>>

Repo2DockerIdle ==
    /\ returncode = 0
    /\ stderr = <<>>
    /\ image_id = "none"

Init ==
    /\ pc = "tag1"
    /\ project \in Projects
    /\ docker_repository_uri \in RepositoryUris
    /\ git_commit \in Commits
    /\ settings_base_url \in BaseUrls
    /\ BuildIdle
    /\ Repo2DockerIdle

Step(next) ==
    /\ pc' = next
    /\ trace' = Append(trace, pc)

----------------------------------------------------------------------------
(* build_docker_image, lines 73-113 *)

\* Line 73
DeriveTag1 ==
    /\ pc = "tag1"
    /\ image_uri' = GetDockerImageUri(docker_repository_uri, git_commit)
    /\ Step("base_url")
    /\ UNCHANGED <<inputs, base_url, wandb_project, wandb_entity, dockerfile,
                   disk, engine, exc, r2d>>

\* Lines 76-82
ResolveUrl ==
    /\ pc = "base_url"
    /\ LET r == ResolveBaseUrl(settings_base_url)
       IN IF r.raised = "none"
          THEN /\ base_url' = r.base_url
               /\ Step("tag2")
               /\ UNCHANGED raised
          ELSE /\ raised' = r.raised
               /\ Step("raised")
               /\ UNCHANGED base_url
    /\ UNCHANGED <<inputs, image_uri, wandb_project, wandb_entity, dockerfile,
                   disk, engine, pending, failed, log, r2d>>

\* Line 83
DeriveTag2 ==
    /\ pc = "tag2"
    /\ image_uri' = GetDockerImageUri(docker_repository_uri, git_commit)
    /\ Step("env")
    /\ UNCHANGED <<inputs, base_url, wandb_project, wandb_entity, dockerfile,
                   disk, engine, exc, r2d>>

\* Lines 87-88
LookupEnv ==
    /\ pc = "env"
    /\ LET p == EnvLookup(project.docker_env, "WANDB_PROJECT")
           e == EnvLookup(project.docker_env, "WANDB_ENTITY")
       IN IF p.raised # "none"
          THEN /\ raised' = p.raised
               /\ Step("raised")
               /\ UNCHANGED <<wandb_project, wandb_entity>>
          ELSE IF e.raised # "none"
          THEN /\ raised' = e.raised
               /\ wandb_project' = p.v
               /\ Step("raised")
               /\ UNCHANGED wandb_entity
          ELSE /\ wandb_project' = p.v
               /\ wandb_entity' = e.v
               /\ Step("render")
               /\ UNCHANGED raised
    /\ UNCHANGED <<inputs, image_uri, base_url, dockerfile, disk, engine,
                   pending, failed, log, r2d>>

\* Lines 89-113
Render ==
    /\ pc = "render"
    /\ dockerfile' = RenderDockerfile(BaseImage, base_url, ApiKey,
                                      wandb_project, wandb_entity, project.name)
    /\ Step("mkdtemp")
    /\ UNCHANGED <<inputs, image_uri, base_url, wandb_project, wandb_entity,
                   disk, engine, exc, r2d>>

----------------------------------------------------------------------------
(* _create_docker_build_ctx, lines 163-177, called from line 114 *)

\* Line 163, outside the try block
Mkdtemp ==
    /\ pc = "mkdtemp"
    /\ \E ok \in BOOLEAN :
          IF ok
          THEN /\ directory' = "exists"
               /\ Step("copytree")
               /\ UNCHANGED <<raised, failed>>
          ELSE /\ raised' = "OSError: mkdtemp"
               /\ failed' = failed \cup {"mkdtemp"}
               /\ Step("raised")
               /\ UNCHANGED directory
    /\ UNCHANGED <<inputs, locals, dst_path, result_path, tarball, engine,
                   pending, log, r2d>>

\* Lines 165-166: fails when work_dir does not exist, or on an I/O error
Copytree ==
    /\ pc = "copytree"
    /\ \E ok \in (IF project.dir.exists THEN BOOLEAN ELSE {FALSE}) :
          IF ok
          THEN /\ dst_path' = project.dir.files
               /\ Step("write")
               /\ UNCHANGED <<pending, failed>>
          ELSE /\ pending' = "Error: copytree"
               /\ failed' = failed \cup {"copytree"}
               /\ Step("rmtree")
               /\ UNCHANGED dst_path
    /\ UNCHANGED <<inputs, locals, directory, result_path, tarball, engine,
                   raised, log, r2d>>

\* Lines 167-168
WriteDockerfile ==
    /\ pc = "write"
    /\ \E ok \in BOOLEAN :
          IF ok
          THEN /\ dst_path' = WriteFile(dst_path, GENERATED_DOCKERFILE_NAME, dockerfile)
               /\ Step("mkstemp")
               /\ UNCHANGED <<pending, failed>>
          ELSE /\ pending' = "OSError: write"
               /\ failed' = failed \cup {"write"}
               /\ Step("rmtree")
               /\ UNCHANGED dst_path
    /\ UNCHANGED <<inputs, locals, directory, result_path, tarball, engine,
                   raised, log, r2d>>

\* Line 169
Mkstemp ==
    /\ pc = "mkstemp"
    /\ \E ok \in BOOLEAN :
          IF ok
          THEN /\ result_path' = "exists"
               /\ Step("make_tarfile")
               /\ UNCHANGED <<pending, failed>>
          ELSE /\ pending' = "OSError: mkstemp"
               /\ failed' = failed \cup {"mkstemp"}
               /\ Step("rmtree")
               /\ UNCHANGED result_path
    /\ UNCHANGED <<inputs, locals, directory, dst_path, tarball, engine,
                   raised, log, r2d>>

\* Lines 170-174
MakeTar ==
    /\ pc = "make_tarfile"
    /\ \E ok \in BOOLEAN :
          IF ok
          THEN /\ tarball' = MakeTarfile(dst_path, PROJECT_TAR_ARCHIVE_NAME)
               /\ UNCHANGED <<pending, failed>>
          ELSE /\ pending' = "Error: make_tarfile"
               /\ failed' = failed \cup {"make_tarfile"}
               /\ UNCHANGED tarball
    /\ Step("rmtree")
    /\ UNCHANGED <<inputs, locals, directory, dst_path, result_path, engine,
                   raised, log, r2d>>

\* Variant: rmtree after the try block instead of in a finally block
RmtreeOnSuccessOnly ==
    /\ pc = "rmtree"
    /\ IF pending # "none"
       THEN /\ raised' = pending
            /\ Step("raised")
            /\ UNCHANGED <<directory, dst_path, failed>>
       ELSE \E ok \in BOOLEAN :
               IF ok
               THEN /\ directory' = "removed"
                    /\ dst_path' = NoFiles
                    /\ Step("open")
                    /\ UNCHANGED <<raised, failed>>
               ELSE /\ raised' = "OSError: rmtree"
                    /\ failed' = failed \cup {"rmtree"}
                    /\ Step("raised")
                    /\ UNCHANGED <<directory, dst_path>>
    /\ pending' = "none"
    /\ UNCHANGED <<inputs, locals, result_path, tarball, engine, log, r2d>>

\* Lines 175-177: the finally block, then the return.  An exception raised by
\* rmtree leaves the finally block in place of the one that was travelling.
Rmtree ==
    /\ pc = "rmtree"
    /\ \E ok \in BOOLEAN :
          IF ok
          THEN /\ directory' = "removed"
               /\ dst_path' = NoFiles
               /\ raised' = pending
               /\ Step(IF pending = "none" THEN "open" ELSE "raised")
               /\ UNCHANGED failed
          ELSE /\ raised' = "OSError: rmtree"
               /\ failed' = failed \cup {"rmtree"}
               /\ Step("raised")
               /\ UNCHANGED <<directory, dst_path>>
    /\ pending' = "none"
    /\ UNCHANGED <<inputs, locals, result_path, tarball, engine, log, r2d>>

----------------------------------------------------------------------------
(* build_docker_image, lines 115-138 *)

\* Line 115
OpenCtx ==
    /\ pc = "open"
    /\ \E ok \in BOOLEAN :
          IF ok
          THEN /\ docker_build_ctx' = "open"
               /\ Step("build")
               /\ UNCHANGED <<raised, failed>>
          ELSE /\ raised' = "OSError: open"
               /\ failed' = failed \cup {"open"}
               /\ Step("raised")
               /\ UNCHANGED docker_build_ctx
    /\ UNCHANGED <<inputs, locals, disk, engineCalls, image, pending, log, r2d>>

\* Lines 116-131, the body of the with block
Build ==
    /\ pc = "build"
    /\ \E outcome \in {"ok", "from_env fails", "build fails"} :
          CASE outcome = "ok" ->
                 /\ engineCalls' = engineCalls + 1
                 /\ image' = [built |-> TRUE, tag |-> image_uri]
                 /\ UNCHANGED <<pending, failed>>
            [] outcome = "from_env fails" ->
                 /\ pending' = "DockerException: from_env"
                 /\ failed' = failed \cup {"from_env"}
                 /\ UNCHANGED <<engineCalls, image>>
            [] outcome = "build fails" ->
                 /\ engineCalls' = engineCalls + 1
                 /\ pending' = "BuildError"
                 /\ failed' = failed \cup {"build"}
                 /\ UNCHANGED image
    /\ Step("close")
    /\ UNCHANGED <<inputs, locals, disk, docker_build_ctx, raised, log, r2d>>

\* Variant: a failed build is tried again instead of being propagated
CloseCtxRetry ==
    /\ pc = "close"
    /\ IF pending = "BuildError"
       THEN /\ Step("build")
            /\ UNCHANGED <<docker_build_ctx, raised>>
       ELSE /\ docker_build_ctx' = "closed"
            /\ raised' = pending
            /\ Step(IF pending = "none" THEN "remove" ELSE "raised")
    /\ pending' = "none"
    /\ UNCHANGED <<inputs, locals, disk, engineCalls, image, failed, log, r2d>>

\* Leaving the with block of line 115, normally or by an exception
CloseCtx ==
    /\ pc = "close"
    /\ docker_build_ctx' = "closed"
    /\ raised' = pending
    /\ pending' = "none"
    /\ Step(IF pending = "none" THEN "remove" ELSE "raised")
    /\ UNCHANGED <<inputs, locals, disk, engineCalls, image, failed, log, r2d>>

\* Lines 132-138
RemoveCtx ==
    /\ pc = "remove"
    /\ \E ok \in BOOLEAN :
          IF ok
          THEN /\ result_path' = "removed"
               /\ UNCHANGED <<failed, log>>
          ELSE /\ log' = Append(log, "Temporary docker context file was not deleted.")
               /\ failed' = failed \cup {"remove"}
               /\ UNCHANGED result_path
    /\ Step("returned")
    /\ UNCHANGED <<inputs, locals, directory, dst_path, tarball, engine,
                   pending, raised, r2d>>

Next ==
    \/ DeriveTag1
    \/ ResolveUrl
    \/ DeriveTag2
    \/ LookupEnv
    \/ Render
    \/ Mkdtemp
    \/ Copytree
    \/ WriteDockerfile
    \/ Mkstemp
    \/ MakeTar
    \/ Rmtree
    \/ OpenCtx
    \/ Build
    \/ CloseCtx
    \/ RemoveCtx

Spec == Init /\ [][Next]_vars

----------------------------------------------------------------------------
(* _get_docker_image_uri on its own, over every URI and commit within the bounds *)

UriChars == {" ", "a", "-"}
CommitChars == {"0", "f"}

SomeProject ==
    [dir |-> [exists |-> TRUE, files |-> NoFiles],
     name |-> None,
     docker_env |-> [k \in {"WANDB_PROJECT", "WANDB_ENTITY"} |-> EnvValues[k]]]

InitTag ==
    /\ pc = "tag1"
    /\ project = SomeProject
    /\ docker_repository_uri \in {None} \cup {Some(s) : s \in SeqsUpTo(UriChars, MaxUriLen)}
    /\ git_commit \in {None} \cup {Some(s) : s \in SeqsUpTo(CommitChars, MaxCommitLen)}
    /\ settings_base_url = <<"https", ":", "//api.example.com">>
    /\ BuildIdle
    /\ Repo2DockerIdle

NextTag == DeriveTag1

SpecTag == InitTag /\ [][NextTag]_vars

----------------------------------------------------------------------------
(* generate_docker_image, lines 44-64 *)

ImageIds == {"img1", "img2"}

StderrLines ==
    [kind : {"tagged", "reusing"}, id : ImageIds] \cup {[kind |-> "other", id |-> ""]}

InitRepo2Docker ==
    /\ pc = "repo2docker"
    /\ project = SomeProject
    /\ docker_repository_uri = None
    /\ git_commit = None
    /\ settings_base_url = <<"https", ":", "//api.example.com">>
    /\ BuildIdle
    /\ returncode \in {0, 1}
    /\ stderr \in SeqsUpTo(StderrLines, MaxStderrLines)
    /\ image_id = "none"

Repo2Docker ==
    /\ pc = "repo2docker"
    /\ LET r == GenerateDockerImage(returncode, stderr)
       IN /\ raised' = r.raised
          /\ image_id' = r.image_id
          /\ Step(IF r.raised = "none" THEN "returned" ELSE "raised")
    /\ UNCHANGED <<inputs, locals, disk, engine, pending, failed, log,
                   returncode, stderr>>

NextRepo2Docker == Repo2Docker

SpecRepo2Docker == InitRepo2Docker /\ [][NextRepo2Docker]_vars

----------------------------------------------------------------------------
(* Properties *)

Terminal == pc \in {"returned", "raised"}

\* The call of _create_docker_build_ctx at line 114 has returned or raised
PackagerLeft == pc \in {"open", "build", "close", "remove", "returned", "raised"}

PackagerSteps == {"mkdtemp", "copytree", "write", "mkstemp", "make_tarfile", "rmtree"}

\* Operations other than the two cleanup steps, with the error each raises
PrimaryError ==
    [op \in {"mkdtemp", "copytree", "write", "mkstemp", "make_tarfile", "open",
             "from_env", "build"} |->
        CASE op = "mkdtemp" -> "OSError: mkdtemp"
          [] op = "copytree" -> "Error: copytree"
          [] op = "write" -> "OSError: write"
          [] op = "mkstemp" -> "OSError: mkstemp"
          [] op = "make_tarfile" -> "Error: make_tarfile"
          [] op = "open" -> "OSError: open"
          [] op = "from_env" -> "DockerException: from_env"
          [] op = "build" -> "BuildError"]

Range(f) == {f[x] : x \in DOMAIN f}

\* C1: once build_docker_image has returned or raised, the archive file it
\* created no longer exists, unless its deletion was attempted and failed.
C1_ArchiveGoneOnEveryOutcome ==
    (Terminal /\ result_path = "exists") => "remove" \in failed

\* C2 as stated: after _create_docker_build_ctx has returned or raised, the
\* scratch directory it allocated does not exist.
C2_ScratchGoneAfterPackager ==
    PackagerLeft => directory # "exists"

\* C2 as amended: after _create_docker_build_ctx has returned or raised, the
\* scratch directory it allocated does not exist, whichever of copy, recipe
\* write, temp-file allocation or archiving failed, unless the removal of the
\* directory was itself attempted and failed.
C2_ScratchGoneUnlessRemovalFailed ==
    (PackagerLeft /\ directory = "exists") => "rmtree" \in failed

\* A packaging step failed, the call has raised, and the directory is gone
C2_Witness ==
    /\ pc = "raised"
    /\ failed \cap {"copytree", "write", "mkstemp", "make_tarfile"} # {}
    /\ directory = "removed"

\* C3: with WANDB_PROJECT or WANDB_ENTITY missing from docker_env the call
\* raises, and no scratch directory is ever created, no archive file is ever
\* allocated and the build engine is never called.
C3_ValidationGating ==
    ({"WANDB_PROJECT", "WANDB_ENTITY"} \ DOMAIN project.docker_env # {}) =>
        /\ directory = "unallocated"
        /\ result_path = "unallocated"
        /\ docker_build_ctx = "unopened"
        /\ engineCalls = 0
        /\ Range(trace) \cap PackagerSteps = {}
        /\ pc \notin PackagerSteps \cup {"open", "build", "close", "remove", "returned"}
        /\ Terminal => raised \in {"KeyError", "ValueError"}

\* The lookup of a missing key has raised
C3_Witness ==
    /\ pc = "raised"
    /\ raised = "KeyError"
    /\ "WANDB_PROJECT" \notin DOMAIN project.docker_env

\* C4: a failing cleanup step (rmtree of the scratch directory, os.remove of
\* the archive) is logged and never reaches the caller: the caller sees the
\* error of the operation that failed, or the image when none did.
C4_CleanupNeverEscalates ==
    Terminal =>
        /\ raised \notin {"OSError: rmtree", "OSError: remove"}
        /\ (failed \cap {"rmtree", "remove"} # {}) => log # <<>>
        /\ \A op \in failed \cap DOMAIN PrimaryError :
              pc = "raised" /\ raised = PrimaryError[op]
        /\ (failed \cap DOMAIN PrimaryError = {} /\ "render" \in Range(trace)) =>
              pc = "returned" /\ image.built

\* C6: past lines 76-82 the base URL is host.docker.internal with the port of
\* a local URL, host.docker.internal:9002 for a development URL and the
\* configured URL otherwise, and no URL makes the call fail.
C6_BaseUrlTranslation ==
    ("base_url" \in Range(trace)) =>
        /\ raised # "ValueError"
        /\ (raised = "none" /\ IsWandbLocalUri(settings_base_url)
              /\ Len(settings_base_url) >= 5) =>
              base_url = HostDockerInternal \o <<settings_base_url[5]>>
        /\ (~IsWandbLocalUri(settings_base_url) /\ IsWandbDevUri(settings_base_url)) =>
              base_url = HostDockerInternal \o <<"9002">>
        /\ (~IsWandbLocalUri(settings_base_url) /\ ~IsWandbDevUri(settings_base_url)) =>
              base_url = settings_base_url

\* C7: the archive has the single root PROJECT_TAR_ARCHIVE_NAME, holding the
\* recipe exactly as rendered and every file of the project directory with
\* its content unchanged, a file named like the recipe included.
C7_ArchiveContainment ==
    (tarball # NoTarball) =>
        /\ tarball.root = PROJECT_TAR_ARCHIVE_NAME
        /\ GENERATED_DOCKERFILE_NAME \in DOMAIN tarball.files
        /\ tarball.files[GENERATED_DOCKERFILE_NAME] = dockerfile
        /\ \A f \in DOMAIN project.dir.files :
              /\ f \in DOMAIN tarball.files
              /\ tarball.files[f] = project.dir.files[f]

\* C5: _get_docker_image_uri returns the prefix followed by the suffix: the
\* prefix is "docker-project" for an empty URI and otherwise the URI with each
\* space replaced by a hyphen; the suffix is empty without a commit and
\* otherwise ":" and the first seven characters of the commit, or all of them
\* when there are fewer.
C5_ImageUri ==
    (pc = "base_url") =>
        LET prefix == IF Truthy(docker_repository_uri)
                      THEN docker_repository_uri.v ELSE DefaultRepository
            n == Len(prefix)
            k == IF Len(git_commit.v) < 7 THEN Len(git_commit.v) ELSE 7
        IN /\ Len(image_uri) = n + (IF Truthy(git_commit) THEN 1 + k ELSE 0)
           /\ \A i \in 1..n :
                 image_uri[i] = IF prefix[i] = " " THEN "-" ELSE prefix[i]
           /\ Truthy(git_commit) =>
                 /\ image_uri[n + 1] = ":"
                 /\ \A j \in 1..k : image_uri[n + 1 + j] = git_commit.v[j]

\* A URI with a space and a commit longer than seven characters were tagged
C5_Witness ==
    /\ pc = "base_url"
    /\ Truthy(docker_repository_uri)
    /\ " " \in Range(docker_repository_uri.v)
    /\ Len(git_commit.v) > 7

\* C8: the positions of build_docker_image are executed in the order derive
\* tag, package context, open stream, invoke engine, close stream, delete
\* archive; none is executed twice or before the one before it; the engine is
\* called at most once; the archive is deleted only after the stream is
\* closed; the call ends returned with an image or raised with an error.
StepIndex(p) ==
    CASE p \in {"tag1", "base_url", "tag2", "env", "render"} -> 1
      [] p \in PackagerSteps -> 2
      [] p = "open" -> 3
      [] p = "build" -> 4
      [] p = "close" -> 5
      [] p = "remove" -> 6

C8_LinearOrder ==
    /\ \A i, j \in DOMAIN trace :
          i < j => /\ trace[i] # trace[j]
                   /\ StepIndex(trace[i]) <= StepIndex(trace[j])
    /\ \A i \in DOMAIN trace :
          StepIndex(trace[i]) > 1 =>
             \E h \in 1..(i - 1) : StepIndex(trace[h]) = StepIndex(trace[i]) - 1
                                   \/ StepIndex(trace[h]) = StepIndex(trace[i])
    /\ engineCalls <= 1
    /\ engineCalls = 1 => "build" \in Range(trace)
    /\ result_path = "removed" => docker_build_ctx = "closed"
    /\ "remove" \in Range(trace) => "close" \in Range(trace)
    /\ pc = "returned" => image.built /\ raised = "none"
    /\ pc = "raised" => ~image.built /\ raised # "none"
    /\ ~Terminal => ENABLED Next

\* A call that went through every position and returned the image
C8_Witness ==
    /\ pc = "returned"
    /\ Len(trace) = 15
    /\ result_path = "removed"

\* C9: the recipe is FROM, COPY, WORKDIR, ENV WANDB_BASE_URL, ENV
\* WANDB_API_KEY, ENV WANDB_PROJECT, ENV WANDB_ENTITY, then ENV WANDB_NAME
\* exactly when project.name is set and non-empty, then ENV WANDB_LAUNCH=True
\* and USER root.
RecipeHead ==
    <<<<"FROM", "">>, <<"COPY", PROJECT_TAR_ARCHIVE_NAME>>, <<"WORKDIR", "">>,
      <<"ENV", "WANDB_BASE_URL">>, <<"ENV", "WANDB_API_KEY">>,
      <<"ENV", "WANDB_PROJECT">>, <<"ENV", "WANDB_ENTITY">>>>

RecipeTail == <<<<"ENV", "WANDB_LAUNCH">>, <<"USER", "">>>>

C9_RecipeLines ==
    (dockerfile # <<>>) =>
        LET keys == [i \in DOMAIN dockerfile |-> <<dockerfile[i].kw, dockerfile[i].key>>]
            named == project.name.some /\ Len(project.name.v) > 0
        IN /\ keys = IF named
                     THEN RecipeHead \o <<<<"ENV", "WANDB_NAME">>>> \o RecipeTail
                     ELSE RecipeHead \o RecipeTail
           /\ named => dockerfile[8].val = project.name.v
           /\ dockerfile[Len(dockerfile) - 1].val = <<"True">>
           /\ dockerfile[4].val = base_url

\* A recipe was rendered for a project whose name is the empty string
C9_Witness ==
    /\ dockerfile # <<>>
    /\ project.name = Some(<<>>)

\* C10: generate_docker_image raises whenever repo2docker exited with a
\* non-zero status or printed neither marker; otherwise it returns the id of
\* the first "Successfully tagged" marker, or of the first "Reusing existing
\* image" marker when there is no "Successfully tagged" one.
C10_FailsWheneverToolFailed ==
    (pc \in {"returned", "raised"}) =>
        LET tagged == {i \in DOMAIN stderr : stderr[i].kind = "tagged"}
            reusing == {i \in DOMAIN stderr : stderr[i].kind = "reusing"}
            First(S) == CHOOSE i \in S : \A j \in S : i <= j
        IN IF returncode # 0 \/ (tagged = {} /\ reusing = {})
           THEN pc = "raised"
           ELSE /\ pc = "returned"
                /\ image_id = IF tagged # {} THEN stderr[First(tagged)].id
                              ELSE stderr[First(reusing)].id

====
